---- MODULE Spec2Model ----
(***************************************************************************)
(* State-machine model of the call-handling webhook service in src/app.py. *)
(* The two process-wide dictionaries (conversations, call_data), the       *)
(* messages handed to the SMS gateway, the records printed for the         *)
(* dashboard and the HTTP response of the last request are the state.      *)
(* Spec handles one request at a time (one action per Flask handler);      *)
(* SpecThreaded interleaves the statements of concurrently running         *)
(* handlers, as the threaded development server of app.run does.           *)
(*                                                                         *)
(* Texts (utterances, replies, transcript lines) are sequences of          *)
(* one-character strings, so that lower-casing, substring search, the      *)
(* "Customer: " / "Bot: " prefixes and "\n".join are computed, not assumed.*)
(***************************************************************************)
EXTENDS Integers, Sequences, FiniteSets, TLC

\* ------------------------------------------------------------------ bounds

\* Largest number of role-tagged turns, summed over all sessions, that the
\* sessions of Spec hold (two call ids, before any wrap-up).
MaxTurns == 4

\* The same for SpecOneCall, which follows a single call past its wrap-up.
MaxTurnsOneCall == 8

\* The same for SpecThreaded, counting the turns that running handlers have
\* yet to append.
MaxTurnsThreaded == 6

\* The clock (datetime.now()) takes the values 0..MaxTime.
MaxTime == 1

\* Largest number of dialogue calls that fail (caller turns left without a
\* reply), summed over all sessions.
MaxFailures == 1

\* ------------------------------------------------------------ input domains

CallIds == {"CA1", "CA2"}

\* Python None, and the marker of a key that a dict does not hold.
None == "<None>"
Missing == "<missing>"

\* request.form.get('From'): a caller address, or None when the field is absent.
FromNumbers == {"+441234567890", None}

\* request.form.get('SpeechResult', ''): no trigger phrase / a trigger phrase in
\* mixed letter-casing.
Utterances == { <<"h", "i">>, <<"L", "e", "A", "k", "!">> }

\* response.choices[0].message.content of the dialogue call.
AIResponses == { <<"O", "k">> }

\* request.form.get('CallStatus')
CallStatuses == {"ringing", "completed"}

\* ------------------------------------------------------- text primitives

UpperCase == <<"A", "B", "C", "D", "E", "F", "G", "H", "I", "J", "K", "L", "M",
               "N", "O", "P", "Q", "R", "S", "T", "U", "V", "W", "X", "Y", "Z">>
LowerCase == <<"a", "b", "c", "d", "e", "f", "g", "h", "i", "j", "k", "l", "m",
               "n", "o", "p", "q", "r", "s", "t", "u", "v", "w", "x", "y", "z">>

\* str.lower() on one character (ASCII letters).
LowerChar(ch) ==
    IF \E i \in 1..Len(UpperCase) : UpperCase[i] = ch
    THEN LowerCase[CHOOSE i \in 1..Len(UpperCase) : UpperCase[i] = ch]
    ELSE ch

\* text.lower()
Lower(text) == [i \in 1..Len(text) |-> LowerChar(text[i])]

\* keyword in text  (substring test)
Contains(text, keyword) ==
    \E i \in 0..(Len(text) - Len(keyword)) :
        \A j \in 1..Len(keyword) : text[i + j] = keyword[j]

EMERGENCY_KEYWORDS ==
    { <<"b", "u", "r", "s", "t">>,
      <<"f", "l", "o", "o", "d", "i", "n", "g">>,
      <<"l", "e", "a", "k">>,
      <<"e", "m", "e", "r", "g", "e", "n", "c", "y">>,
      <<"u", "r", "g", "e", "n", "t">>,
      <<"w", "a", "t", "e", "r", " ", "e", "v", "e", "r", "y", "w", "h", "e", "r", "e">> }

detect_emergency(text) ==
    \E keyword \in EMERGENCY_KEYWORDS : Contains(Lower(text), keyword)

\* f"Customer: {speech_result}" and f"Bot: {ai_response}"
CustomerLine(text) == <<"C", "u", "s", "t", "o", "m", "e", "r", ":", " ">> \o text
BotLine(text) == <<"B", "o", "t", ":", " ">> \o text

RECURSIVE Join(_)
\* "\n".join(lines)
Join(lines) ==
    IF Len(lines) = 0 THEN <<>>
    ELSE IF Len(lines) = 1 THEN lines[1]
    ELSE lines[1] \o <<"\n">> \o Join(Tail(lines))

\* ------------------------------------------------------------ dictionaries

\* d[k] = v on a Python dict modelled as a function
Put(d, k, v) == [x \in (DOMAIN d) \cup {k} |-> IF x = k THEN v ELSE d[x]]

EmptyDict == [x \in {} |-> 0]

\* ------------------------------------------------ the language-model oracle

\* The fixed persona instruction of get_ai_response (abbreviated).
SystemPrompt == <<"Y", "o", "u", " ", "a", "r", "e", " ", "a", " ",
                  "r", "e", "c", "e", "p", "t", "i", "o", "n", "i", "s", "t">>

\* Outcome of openai.chat.completions.create in get_ai_response: it raises, or
\* it returns a reply text.
ChatOutcomes ==
    {[ok |-> FALSE, content |-> <<>>]} \cup
    {[ok |-> TRUE, content |-> t] : t \in AIResponses}

\* messages = [system] ; messages.extend(conversation_history) ;
\* messages.append(user)
BuildMessages(conversation_history, user_input) ==
    <<[role |-> "system", content |-> SystemPrompt]>>
        \o conversation_history
        \o <<[role |-> "user", content |-> user_input]>>

\* The six keys the extraction prompt asks for.
BookingKeys == {"name", "phone", "address", "issue", "appointment_time", "is_emergency"}

\* A Python dict over the booking keys; a key the dict lacks maps to Missing.
EmptyFields == [k \in BookingKeys |-> Missing]

\* Values json.loads can return: a dict (type "object") or anything else
\* (list, string, number, null: type "other").  "missing" is used only for a
\* call_data entry that has no 'booking_info' key.
ObjectValue(fields) == [type |-> "object", f |-> fields]
OtherValue == [type |-> "other", f |-> EmptyFields]
NoBooking == [type |-> "missing", f |-> EmptyFields]

\* The except-branch record of extract_booking_info.
DefaultBooking ==
    ObjectValue([name |-> "Not provided", phone |-> "Not provided",
                 address |-> "Not provided", issue |-> "Not provided",
                 appointment_time |-> "Not provided", is_emergency |-> "no"])

\* Reply texts of the extraction call, described by what json.loads makes of
\* them: prose (not JSON), a complete object, a complete object that reports
\* nothing found, an object lacking keys, and JSON that is not an object.
ProseReply == [valid |-> FALSE, value |-> OtherValue]
FullReply ==
    [valid |-> TRUE,
     value |-> ObjectValue([name |-> "Ann", phone |-> "+447700900123",
                            address |-> "1 High St", issue |-> "burst pipe",
                            appointment_time |-> "Monday 9am", is_emergency |-> "yes"])]
NothingFoundReply == [valid |-> TRUE, value |-> DefaultBooking]
PartialReply ==
    [valid |-> TRUE, value |-> ObjectValue([EmptyFields EXCEPT !.name = "Ann"])]
NonObjectReply == [valid |-> TRUE, value |-> OtherValue]

ExtractionReplies ==
    {ProseReply, FullReply, NothingFoundReply, PartialReply, NonObjectReply}

\* Outcome of openai.chat.completions.create in extract_booking_info: it
\* raises, or it returns a reply.
ExtractionOutcomes ==
    {[ok |-> FALSE, reply |-> ProseReply]} \cup
    {[ok |-> TRUE, reply |-> r] : r \in ExtractionReplies}

\* try: return json.loads(content)  except: return {defaults}
extract_booking_info(reply) ==
    IF reply.valid THEN reply.value ELSE DefaultBooking

\* ------------------------------------------------------------ session data

\* The dict stored by voice() under call_data[call_sid].  Keys added later
\* ('is_emergency', 'booking_info', 'status', 'ended_at') start absent:
\* is_emergency FALSE stands for the absent key (the code only ever stores
\* True), <<>> for an absent timestamp.
NewCallData(from_number, time) ==
    [from |-> from_number,
     started_at |-> time,
     conversation |-> <<>>,
     is_emergency |-> FALSE,
     booking_info |-> NoBooking,
     status |-> Missing,
     ended_at |-> <<>>]

\* dict.get(key, default) on a booking dict
FieldGet(booking, key, default) ==
    IF booking.f[key] = Missing THEN default ELSE booking.f[key]

\* data.get('booking_info', {})
BookingOf(d) == IF d.booking_info.type = "missing" THEN ObjectValue(EmptyFields)
                ELSE d.booking_info

\* data.get('from'): voice() always stores the key (None when the request
\* carried no From field).
FromOf(d) == d.from

\* Python truthiness of a string-or-None value
Truthy(v) == v # None /\ v # ""

AppendTurn(conv, c, role, text) ==
    [conv EXCEPT ![c] = Append(@, [role |-> role, content |-> text])]

AppendLine(data, c, line) ==
    [data EXCEPT ![c].conversation = Append(@, line)]

\* A variant that stores the classifier's result of every utterance.
MarkEmergency_Overwrite(data, c, text) ==
    [data EXCEPT ![c].is_emergency = detect_emergency(text)]

\* if is_emergency: call_data[call_sid]['is_emergency'] = True
MarkEmergency(data, c, text) ==
    IF detect_emergency(text) THEN [data EXCEPT ![c].is_emergency = TRUE] ELSE data

\* A variant that wraps up one exchange late.
ShouldWrapUp_Late(conversation_length) == conversation_length > 6

\* A variant that wraps up one exchange early.
ShouldWrapUp_Early(conversation_length) == conversation_length >= 4

\* if conversation_length >= 6
ShouldWrapUp(conversation_length) == conversation_length >= 6

StoreBooking(data, c, booking) == [data EXCEPT ![c].booking_info = booking]

\* ------------------------------------------------------- side effects

\* booking_info.get(...) raises AttributeError when booking_info is no dict.
NotADict(d) == BookingOf(d).type # "object"

\* customer_phone = booking_info.get('phone', data.get('from'))
CustomerPhone(d) == FieldGet(BookingOf(d), "phone", FromOf(d))

\* if customer_phone and customer_phone != "Not provided"
SmsAttempted(d) == Truthy(CustomerPhone(d)) /\ CustomerPhone(d) # "Not provided"

\* The message handed to twilio_client.messages.create
SmsMessage(d) ==
    [to |-> CustomerPhone(d),
     appointment_time |-> FieldGet(BookingOf(d), "appointment_time", None),
     issue |-> FieldGet(BookingOf(d), "issue", None)]

\* dashboard_data of save_to_dashboard; the duration is ended - started, both
\* defaulting to the current time.
DashboardData(d, time) ==
    [clientName |-> FieldGet(BookingOf(d), "name", "Unknown"),
     phone |-> FieldGet(BookingOf(d), "phone", FromOf(d)),
     issue |-> FieldGet(BookingOf(d), "issue", "Not specified"),
     urgency |-> IF d.is_emergency \/ FieldGet(BookingOf(d), "is_emergency", None) = "yes"
                 THEN "emergency" ELSE "normal",
     appointmentTime |-> FieldGet(BookingOf(d), "appointment_time", "Not scheduled"),
     status |-> IF d.is_emergency THEN "urgent" ELSE "booked",
     duration |-> (IF d.ended_at = <<>> THEN time ELSE d.ended_at[1]) - d.started_at,
     transcript |-> Join(d.conversation)]

\* ------------------------------------------------------------------- state

VARIABLES
    conversations,   \* dict call_sid -> list of {"role", "content"}
    call_data,       \* dict call_sid -> session dict
    now,             \* datetime.now()
    sms_outbox,      \* per call: messages accepted by twilio_client.messages.create
    dashboard_log,   \* per call: dashboard_data records printed by save_to_dashboard
    last,            \* per call: the /process_speech request handled last, with its response
    threads          \* SpecThreaded: each worker thread's position and locals

vars == <<conversations, call_data, now, sms_outbox, dashboard_log, last, threads>>

Threads == {1, 2}

\* TwiML verbs of a response
Verb(verb, prompt) == [verb |-> verb, prompt |-> prompt]

\* voice(): Gather(say greeting), then Say for the no-input case
GreetingResponse == <<Verb("Gather", "greeting"), Verb("Say", "no_input")>>
\* process_speech(), else-branch: Gather(say ai_response)
GatherResponse == <<Verb("Gather", "ai_response")>>
\* process_speech(), wrap-up branch: Say(closing confirmation), Hangup
ClosingResponse == <<Verb("Say", "closing"), Verb("Hangup", "")>>

\* What is recorded of a handled /process_speech request: whether the handler
\* returned ("200") or an exception left it ("500"), the TwiML verbs returned,
\* the outcome of the dialogue call with the messages sent and the text spoken
\* back, the turn count tested against the threshold (0: not reached), the
\* outcome of the extraction call with the transcript text sent and the reply
\* received, and which of the two side effects ran.
Event(http, twiml, chat, messages, ai_response, conversation_length, extraction, extract_text, extract_reply, sms, dashboard) ==
    [http |-> http, twiml |-> twiml, chat |-> chat, messages |-> messages,
     ai_response |-> ai_response, conversation_length |-> conversation_length,
     extraction |-> extraction, extract_text |-> extract_text,
     extract_reply |-> extract_reply, sms |-> sms, dashboard |-> dashboard]

NoEvent ==
    Event("none", <<>>, "none", <<>>, <<>>, 0, "none", <<>>, ProseReply, "none", FALSE)

\* conversations[call_sid] raised KeyError
KeyErrorEvent ==
    Event("500", <<>>, "none", <<>>, <<>>, 0, "none", <<>>, ProseReply, "none", FALSE)

\* A worker thread: the statement it executes next (pc) and the handler's
\* local variables: call_sid, from_number or call_status (arg), speech_result,
\* booking_info, and the record of the request under construction.
Thread(pc, sid, arg, speech, booking, ev) ==
    [pc |-> pc, sid |-> sid, arg |-> arg, speech |-> speech,
     booking |-> booking, ev |-> ev]

IdleThread == Thread("idle", "", "", <<>>, NoBooking, NoEvent)

RECURSIVE SumLen(_, _)
SumLen(conv, S) ==
    IF S = {} THEN 0
    ELSE LET x == CHOOSE y \in S : TRUE
         IN Len(conv[x]) + SumLen(conv, S \ {x})

TotalTurns(conv) == SumLen(conv, DOMAIN conv)

\* Caller turns that no reply follows.
Unanswered(history) ==
    {i \in 1..Len(history) :
        /\ history[i].role = "user"
        /\ (i = Len(history) \/ history[i + 1].role = "user")}

RECURSIVE SumUnanswered(_, _)
SumUnanswered(conv, S) ==
    IF S = {} THEN 0
    ELSE LET x == CHOOSE y \in S : TRUE
         IN Cardinality(Unanswered(conv[x])) + SumUnanswered(conv, S \ {x})

TotalFailures(conv) == SumUnanswered(conv, DOMAIN conv)

Init ==
    /\ conversations = EmptyDict
    /\ call_data = EmptyDict
    /\ now = 0
    /\ sms_outbox = [c \in CallIds |-> <<>>]
    /\ dashboard_log = [c \in CallIds |-> <<>>]
    /\ last = [c \in CallIds |-> NoEvent]
    /\ threads = [t \in Threads |-> IdleThread]

\* Time passes between requests.
Tick ==
    /\ now < MaxTime
    /\ now' = now + 1
    /\ UNCHANGED <<conversations, call_data, sms_outbox, dashboard_log, last, threads>>

\* ----------------------------------------- handlers, one request at a time

\* A variant of voice() without the `if call_sid not in conversations` test.
Voice_AlwaysCreate(c, from_number) ==
    /\ conversations' = Put(conversations, c, <<>>)
    /\ call_data' = Put(call_data, c, NewCallData(from_number, now))
    /\ UNCHANGED <<now, sms_outbox, dashboard_log, last, threads>>

\* POST /voice.  The response is GreetingResponse whatever the state.
Voice(c, from_number) ==
    /\ IF c \notin DOMAIN conversations
       THEN /\ conversations' = Put(conversations, c, <<>>)
            /\ call_data' = Put(call_data, c, NewCallData(from_number, now))
       ELSE UNCHANGED <<conversations, call_data>>
    /\ UNCHANGED <<now, sms_outbox, dashboard_log, last, threads>>

\* A variant of the wrap-up branch that runs the two side effects on the
\* session as it is before the booking is stored.
WrapUp_SideEffectsFirst(c, conv2, data2, ev, reply, sms_ok) ==
    LET data3 == StoreBooking(data2, c, extract_booking_info(reply))
        done == [ev EXCEPT !.extraction = "done", !.extract_reply = reply]
    IN
    /\ conversations' = conv2
    /\ call_data' = data3
    /\ IF NotADict(data2[c])
       THEN /\ last' = [last EXCEPT ![c] = done]
            /\ UNCHANGED <<sms_outbox, dashboard_log>>
       ELSE /\ sms_outbox' =
                 IF SmsAttempted(data2[c]) /\ sms_ok
                 THEN [sms_outbox EXCEPT ![c] = Append(@, SmsMessage(data2[c]))]
                 ELSE sms_outbox
            /\ dashboard_log' =
                 [dashboard_log EXCEPT ![c] = Append(@, DashboardData(data2[c], now))]
            /\ last' = [last EXCEPT ![c] =
                          [done EXCEPT !.http = "200", !.twiml = ClosingResponse,
                                       !.sms = IF ~SmsAttempted(data2[c]) THEN "skipped"
                                               ELSE IF sms_ok THEN "sent" ELSE "failed",
                                       !.dashboard = TRUE]]

\* The wrap-up branch of process_speech once the extraction call has returned
\* `reply`: store the booking, send the SMS, save to the dashboard, hang up.
WrapUp(c, conv2, data2, ev, reply, sms_ok) ==
    LET data3 == StoreBooking(data2, c, extract_booking_info(reply))
        done == [ev EXCEPT !.extraction = "done", !.extract_reply = reply]
    IN
    /\ conversations' = conv2
    /\ call_data' = data3
    /\ IF NotADict(data3[c])
       THEN \* send_confirmation_sms: booking_info.get raises AttributeError
            /\ last' = [last EXCEPT ![c] = done]
            /\ UNCHANGED <<sms_outbox, dashboard_log>>
       ELSE /\ sms_outbox' =
                 IF SmsAttempted(data3[c]) /\ sms_ok
                 THEN [sms_outbox EXCEPT ![c] = Append(@, SmsMessage(data3[c]))]
                 ELSE sms_outbox
            /\ dashboard_log' =
                 [dashboard_log EXCEPT ![c] = Append(@, DashboardData(data3[c], now))]
            /\ last' = [last EXCEPT ![c] =
                          [done EXCEPT !.http = "200", !.twiml = ClosingResponse,
                                       !.sms = IF ~SmsAttempted(data3[c]) THEN "skipped"
                                               ELSE IF sms_ok THEN "sent" ELSE "failed",
                                       !.dashboard = TRUE]]

\* POST /process_speech.  chat is the outcome of the dialogue call.
ProcessSpeech(c, speech, chat) ==
    /\ UNCHANGED <<now, threads>>
    /\ IF c \notin DOMAIN conversations
       THEN \* conversations[call_sid] raises KeyError
            /\ last' = [last EXCEPT ![c] = KeyErrorEvent]
            /\ UNCHANGED <<conversations, call_data, sms_outbox, dashboard_log>>
       ELSE
       LET conv1 == AppendTurn(conversations, c, "user", speech)
           data1 == MarkEmergency(AppendLine(call_data, c, CustomerLine(speech)), c, speech)
           messages == BuildMessages(conv1[c], speech)
       IN
       IF ~chat.ok
       THEN \* the dialogue call raises; nothing catches it
            /\ conversations' = conv1
            /\ call_data' = data1
            /\ last' = [last EXCEPT ![c] =
                          [KeyErrorEvent EXCEPT !.chat = "failed", !.messages = messages]]
            /\ UNCHANGED <<sms_outbox, dashboard_log>>
       ELSE
       LET conv2 == AppendTurn(conv1, c, "assistant", chat.content)
           data2 == AppendLine(data1, c, BotLine(chat.content))
           conversation_length == Len(conv2[c])
           conversation_text == Join(data2[c].conversation)
           ev == [KeyErrorEvent EXCEPT !.chat = "ok", !.messages = messages,
                                       !.ai_response = chat.content,
                                       !.conversation_length = conversation_length]
       IN
       IF ~ShouldWrapUp(conversation_length)
       THEN /\ conversations' = conv2
            /\ call_data' = data2
            /\ last' = [last EXCEPT ![c] =
                          [ev EXCEPT !.http = "200", !.twiml = GatherResponse]]
            /\ UNCHANGED <<sms_outbox, dashboard_log>>
       ELSE
       \E ex \in ExtractionOutcomes :
          IF ~ex.ok
          THEN \* the extraction call raises; nothing catches it
               /\ conversations' = conv2
               /\ call_data' = data2
               /\ last' = [last EXCEPT ![c] =
                             [ev EXCEPT !.extraction = "failed",
                                        !.extract_text = conversation_text]]
               /\ UNCHANGED <<sms_outbox, dashboard_log>>
          ELSE \E sms_ok \in BOOLEAN :
                  WrapUp(c, conv2, data2,
                         [ev EXCEPT !.extract_text = conversation_text],
                         ex.reply, sms_ok)

\* A variant of call_status() without the `if call_sid in call_data` test,
\* annotating a fresh entry when the id is unknown.
CallStatus_Unguarded(c, call_status) ==
    /\ call_data' =
          Put(call_data, c,
              [(IF c \in DOMAIN call_data THEN call_data[c] ELSE NewCallData(None, now))
                  EXCEPT !.status = call_status, !.ended_at = <<now>>])
    /\ UNCHANGED <<conversations, now, sms_outbox, dashboard_log, last, threads>>

\* return jsonify({'status': 'ok'}): call_status() has one return and no
\* statement that can raise, for a known and for an unknown call_sid.
CallStatusResponse(data, c) == [http |-> "200", body |-> [status |-> "ok"]]

\* POST /call_status.  The response is the acknowledgment {'status': 'ok'}
\* whatever the state.
CallStatus(c, call_status) ==
    /\ IF c \in DOMAIN call_data
       THEN call_data' = [call_data EXCEPT ![c].status = call_status,
                                           ![c].ended_at = <<now>>]
       ELSE UNCHANGED call_data
    /\ UNCHANGED <<conversations, now, sms_outbox, dashboard_log, last, threads>>

\* One entry of the list returned by GET /api/calls
CallEntry(c, d) ==
    [id |-> c,
     clientName |-> FieldGet(BookingOf(d), "name", "Unknown"),
     phone |-> FieldGet(BookingOf(d), "phone", FromOf(d)),
     issue |-> FieldGet(BookingOf(d), "issue", "Not specified"),
     urgency |-> IF d.is_emergency THEN "emergency" ELSE "normal",
     appointmentTime |-> FieldGet(BookingOf(d), "appointment_time", "Not scheduled"),
     status |-> IF d.status = Missing THEN "in-progress" ELSE d.status,
     timestamp |-> d.started_at,
     transcript |-> Join(d.conversation)]

\* GET /api/calls reads the store and changes nothing: its body, as the set
\* of its entries, and whether booking_info.get raises for some session.
get_calls(data) == {CallEntry(c, data[c]) : c \in DOMAIN data}
get_calls_raises(data) == \E c \in DOMAIN data : NotADict(data[c])

\* The bounds on an utterance event: room for its two turns, and for one
\* more failed dialogue call when chat is a failure.
WithinBounds(max_turns, chat) ==
    /\ TotalTurns(conversations) + 2 <= max_turns
    /\ chat.ok \/ TotalFailures(conversations) < MaxFailures

\* Call ids are taken in their order of first use (CA2 is not started before
\* CA1), which loses no behaviour up to renaming the ids.
InOrder(c) == c = "CA1" \/ "CA1" \in DOMAIN conversations

Next ==
    \/ Tick
    \/ \E c \in CallIds, from_number \in FromNumbers :
            InOrder(c) /\ Voice(c, from_number)
    \/ \E c \in CallIds, speech \in Utterances, chat \in ChatOutcomes :
            WithinBounds(MaxTurns, chat) /\ ProcessSpeech(c, speech, chat)
    \/ \E c \in CallIds, call_status \in CallStatuses : CallStatus(c, call_status)

\* Requests for any of the call ids, handled one at a time.
Spec == Init /\ [][Next]_vars

NextOneCall ==
    \/ \E from_number \in FromNumbers : Voice("CA1", from_number)
    \/ \E speech \in Utterances, chat \in ChatOutcomes :
            WithinBounds(MaxTurnsOneCall, chat) /\ ProcessSpeech("CA1", speech, chat)
    \/ \E call_status \in CallStatuses : CallStatus("CA1", call_status)

\* Requests of one call, handled one at a time within one clock reading,
\* followed past its wrap-up.
SpecOneCall == Init /\ [][NextOneCall]_vars

\* ------------------------ handlers running concurrently, statement by statement
\* app.run() serves each request on a thread of its own; the handlers take no
\* lock, so a thread switch can fall between any two statements that touch
\* the shared dictionaries.  A step below is one such statement (with the
\* thread-local statements that follow it); a blocking call to a collaborator
\* is taken together with the read of its arguments.

SetThread(t, th) == threads' = [threads EXCEPT ![t] = th]
Goto(t, pc) == SetThread(t, [threads[t] EXCEPT !.pc = pc])

\* The handler returns, or an exception leaves it: the thread is free again.
Return(t) == SetThread(t, IdleThread)

\* Turns that running /process_speech handlers have yet to append.
PendingTurns(t) ==
    IF threads[t].pc = "ps152" THEN 2
    ELSE IF threads[t].pc \in {"ps153", "ps156", "ps161", "ps162"} THEN 1
    ELSE 0

\* A request arrives and a free thread takes it.
BeginVoice(t, c, from_number) ==
    /\ threads[t].pc = "idle"
    /\ SetThread(t, [IdleThread EXCEPT !.pc = "v113", !.sid = c, !.arg = from_number])
    /\ UNCHANGED <<conversations, call_data, last, now, sms_outbox, dashboard_log>>

BeginProcessSpeech(t, c, speech) ==
    /\ threads[t].pc = "idle"
    /\ TotalTurns(conversations) + PendingTurns(1) + PendingTurns(2) + 2
          <= MaxTurnsThreaded
    /\ SetThread(t, [IdleThread EXCEPT !.pc = "ps152", !.sid = c, !.speech = speech,
                                       !.ev = KeyErrorEvent])
    /\ UNCHANGED <<conversations, call_data, last, now, sms_outbox, dashboard_log>>

\* voice(), line 113: if call_sid not in conversations
V113(t) ==
    /\ threads[t].pc = "v113"
    /\ IF threads[t].sid \notin DOMAIN conversations THEN Goto(t, "v114") ELSE Return(t)
    /\ UNCHANGED <<conversations, call_data, last, now, sms_outbox, dashboard_log>>

\* voice(), line 114: conversations[call_sid] = []
V114(t) ==
    /\ threads[t].pc = "v114"
    /\ conversations' = Put(conversations, threads[t].sid, <<>>)
    /\ Goto(t, "v115")
    /\ UNCHANGED <<call_data, last, now, sms_outbox, dashboard_log>>

\* voice(), lines 115-119: call_data[call_sid] = {...}
V115(t) ==
    /\ threads[t].pc = "v115"
    /\ call_data' = Put(call_data, threads[t].sid, NewCallData(threads[t].arg, now))
    /\ Return(t)
    /\ UNCHANGED <<conversations, last, now, sms_outbox, dashboard_log>>

\* An exception leaves process_speech: the request ends with a 500.
Raise(t) ==
    /\ last' = [last EXCEPT ![threads[t].sid] = threads[t].ev]
    /\ Return(t)

\* process_speech(), line 152
PS152(t) ==
    LET c == threads[t].sid IN
    /\ threads[t].pc = "ps152"
    /\ IF c \in DOMAIN conversations
       THEN /\ conversations' = AppendTurn(conversations, c, "user", threads[t].speech)
            /\ Goto(t, "ps153")
            /\ UNCHANGED last
       ELSE /\ Raise(t)
            /\ UNCHANGED conversations
    /\ UNCHANGED <<call_data, now, sms_outbox, dashboard_log>>

\* process_speech(), line 153
PS153(t) ==
    LET c == threads[t].sid IN
    /\ threads[t].pc = "ps153"
    /\ IF c \in DOMAIN call_data
       THEN /\ call_data' = AppendLine(call_data, c, CustomerLine(threads[t].speech))
            /\ Goto(t, "ps156")
            /\ UNCHANGED last
       ELSE /\ Raise(t)
            /\ UNCHANGED call_data
    /\ UNCHANGED <<conversations, now, sms_outbox, dashboard_log>>

\* process_speech(), lines 156-158
PS156(t) ==
    /\ threads[t].pc = "ps156"
    /\ call_data' = MarkEmergency(call_data, threads[t].sid, threads[t].speech)
    /\ Goto(t, "ps161")
    /\ UNCHANGED <<conversations, last, now, sms_outbox, dashboard_log>>

\* process_speech(), line 161: get_ai_response reads the history and calls
\* the oracle
PS161(t, chat) ==
    LET c == threads[t].sid
        messages == BuildMessages(conversations[c], threads[t].speech)
    IN
    /\ threads[t].pc = "ps161"
    /\ chat.ok \/ TotalFailures(conversations) <= MaxFailures
    /\ IF chat.ok
       THEN /\ SetThread(t, [threads[t] EXCEPT
                               !.pc = "ps162",
                               !.ev = [@ EXCEPT !.chat = "ok", !.messages = messages,
                                                !.ai_response = chat.content]])
            /\ UNCHANGED last
       ELSE /\ last' = [last EXCEPT ![c] =
                          [threads[t].ev EXCEPT !.chat = "failed", !.messages = messages]]
            /\ Return(t)
    /\ UNCHANGED <<conversations, call_data, now, sms_outbox, dashboard_log>>

\* process_speech(), line 162
PS162(t) ==
    /\ threads[t].pc = "ps162"
    /\ conversations' = AppendTurn(conversations, threads[t].sid, "assistant",
                                   threads[t].ev.ai_response)
    /\ Goto(t, "ps163")
    /\ UNCHANGED <<call_data, last, now, sms_outbox, dashboard_log>>

\* process_speech(), line 163
PS163(t) ==
    /\ threads[t].pc = "ps163"
    /\ call_data' = AppendLine(call_data, threads[t].sid, BotLine(threads[t].ev.ai_response))
    /\ Goto(t, "ps166")
    /\ UNCHANGED <<conversations, last, now, sms_outbox, dashboard_log>>

\* process_speech(), lines 166-168 and, in the else-branch, lines 192-204
PS166(t) ==
    LET c == threads[t].sid
        conversation_length == Len(conversations[c])
        ev == [threads[t].ev EXCEPT !.conversation_length = conversation_length]
    IN
    /\ threads[t].pc = "ps166"
    /\ IF ShouldWrapUp(conversation_length)
       THEN /\ SetThread(t, [threads[t] EXCEPT !.pc = "ps170", !.ev = ev])
            /\ UNCHANGED last
       ELSE /\ last' = [last EXCEPT ![c] =
                          [ev EXCEPT !.http = "200", !.twiml = GatherResponse]]
            /\ Return(t)
    /\ UNCHANGED <<conversations, call_data, now, sms_outbox, dashboard_log>>

\* process_speech(), lines 170-171: join the transcript, call the oracle
PS170(t, ex) ==
    LET c == threads[t].sid
        ev == [threads[t].ev EXCEPT
                 !.extract_text = Join(call_data[c].conversation)]
    IN
    /\ threads[t].pc = "ps170"
    /\ IF ex.ok
       THEN /\ SetThread(t, [threads[t] EXCEPT
                               !.pc = "ps174",
                               !.booking = extract_booking_info(ex.reply),
                               !.ev = [ev EXCEPT !.extraction = "done",
                                                 !.extract_reply = ex.reply]])
            /\ UNCHANGED last
       ELSE /\ last' = [last EXCEPT ![c] = [ev EXCEPT !.extraction = "failed"]]
            /\ Return(t)
    /\ UNCHANGED <<conversations, call_data, now, sms_outbox, dashboard_log>>

\* process_speech(), line 174
PS174(t) ==
    /\ threads[t].pc = "ps174"
    /\ call_data' = StoreBooking(call_data, threads[t].sid, threads[t].booking)
    /\ Goto(t, "ps185")
    /\ UNCHANGED <<conversations, last, now, sms_outbox, dashboard_log>>

\* process_speech(), line 185: send_confirmation_sms(call_sid)
PS185(t, sms_ok) ==
    LET c == threads[t].sid
        d == call_data[c]
    IN
    /\ threads[t].pc = "ps185"
    /\ IF NotADict(d)
       THEN /\ Raise(t)
            /\ UNCHANGED sms_outbox
       ELSE /\ sms_outbox' =
                 IF SmsAttempted(d) /\ sms_ok
                 THEN [sms_outbox EXCEPT ![c] = Append(@, SmsMessage(d))]
                 ELSE sms_outbox
            /\ SetThread(t, [threads[t] EXCEPT
                               !.pc = "ps188",
                               !.ev = [@ EXCEPT !.sms = IF ~SmsAttempted(d) THEN "skipped"
                                                        ELSE IF sms_ok THEN "sent"
                                                        ELSE "failed"]])
            /\ UNCHANGED last
    /\ UNCHANGED <<conversations, call_data, now, dashboard_log>>

\* process_speech(), lines 188-204: save_to_dashboard(call_sid), hang up
PS188(t) ==
    LET c == threads[t].sid IN
    /\ threads[t].pc = "ps188"
    /\ IF NotADict(call_data[c])
       THEN /\ Raise(t)
            /\ UNCHANGED dashboard_log
       ELSE /\ dashboard_log' =
                 [dashboard_log EXCEPT ![c] = Append(@, DashboardData(call_data[c], now))]
            /\ last' = [last EXCEPT ![c] =
                          [threads[t].ev EXCEPT !.http = "200", !.twiml = ClosingResponse,
                                                !.dashboard = TRUE]]
            /\ Return(t)
    /\ UNCHANGED <<conversations, call_data, now, sms_outbox>>

\* Inputs of SpecThreaded: call-starts and utterances of one call, with one
\* utterance text, two extraction replies and an SMS gateway that accepts.
ThreadedFrom == {"+441234567890"}
ThreadedUtterances == { <<"h", "i">> }
ThreadedExtractions == {[ok |-> TRUE, reply |-> r] : r \in {FullReply, NonObjectReply}}
ThreadedSmsOutcomes == {TRUE}

NextThreaded ==
    \/ \E t \in Threads, from_number \in ThreadedFrom : BeginVoice(t, "CA1", from_number)
    \/ \E t \in Threads, speech \in ThreadedUtterances :
            BeginProcessSpeech(t, "CA1", speech)
    \/ \E t \in Threads : V113(t)
    \/ \E t \in Threads : V114(t)
    \/ \E t \in Threads : V115(t)
    \/ \E t \in Threads : PS152(t)
    \/ \E t \in Threads : PS153(t)
    \/ \E t \in Threads : PS156(t)
    \/ \E t \in Threads, chat \in ChatOutcomes : PS161(t, chat)
    \/ \E t \in Threads : PS162(t)
    \/ \E t \in Threads : PS163(t)
    \/ \E t \in Threads : PS166(t)
    \/ \E t \in Threads, ex \in ThreadedExtractions : PS170(t, ex)
    \/ \E t \in Threads : PS174(t)
    \/ \E t \in Threads, sms_ok \in ThreadedSmsOutcomes : PS185(t, sms_ok)
    \/ \E t \in Threads : PS188(t)

\* Call-starts and utterances of one call, handled by two threads whose
\* statements interleave.
SpecThreaded == Init /\ [][NextThreaded]_vars

\* ------------------------------------------------------------------ claims

HasHangup(twiml) == \E i \in 1..Len(twiml) : twiml[i].verb = "Hangup"

\* C1: for every session, the notification dispatch and the record
\* publication each happen at most once, also when a further utterance
\* arrives for a session that has already been wrapped up.
C1_SideEffectsAtMostOnce ==
    \A c \in CallIds : Len(sms_outbox[c]) <= 1 /\ Len(dashboard_log[c]) <= 1

\* C2: extraction, side effects and hangup happen in exactly the utterance
\* events whose turn count, after the system turn is appended, is at least 6:
\* below 6 turns a session has no booking record, no notification, no
\* published record and its last response gathers; a returned response is the
\* closing hangup if and only if the count has reached 6, and an event whose
\* dialogue call succeeded at a count of 6 or more ran the extraction.
C2_WrapUpAtSixTurns ==
    \A c \in DOMAIN conversations :
        LET n == Len(conversations[c])
            e == last[c]
        IN
        /\ n < 6 => /\ call_data[c].booking_info = NoBooking
                    /\ sms_outbox[c] = <<>>
                    /\ dashboard_log[c] = <<>>
                    /\ e.extraction = "none"
                    /\ ~HasHangup(e.twiml)
        /\ e.chat = "ok" => e.conversation_length = n
        /\ e.http = "200" => /\ (e.twiml = ClosingResponse <=> n >= 6)
                            /\ (e.twiml = GatherResponse <=> n < 6)
        /\ (e.chat = "ok" /\ n >= 6) => e.extraction # "none"

\* C2 witness: a call wrapped up by the event that brought it to exactly 6
\* turns.
C2_Witness ==
    /\ "CA1" \in DOMAIN conversations
    /\ Len(conversations["CA1"]) = 6
    /\ last["CA1"].twiml = ClosingResponse
    /\ Len(dashboard_log["CA1"]) = 1

\* C3: once a session's booking record has been assigned, no later event
\* changes or replaces it.
C3_BookingSetOnce ==
    [][\A c \in DOMAIN call_data :
          call_data[c].booking_info # NoBooking =>
              call_data'[c].booking_info = call_data[c].booking_info]_vars

\* C4: once a session's emergency flag is true, it is still true after any
\* later request (utterance with or without trigger phrase, call-start,
\* status update).
C4_EmergencyMonotonic ==
    [][\A c \in DOMAIN call_data :
          call_data[c].is_emergency =>
              c \in DOMAIN call_data' /\ call_data'[c].is_emergency]_vars

\* C4 witness: a flagged session whose trigger utterance was followed by an
\* utterance without trigger phrase, by a wrap-up and by a status update.
C4_Witness ==
    /\ "CA1" \in DOMAIN call_data
    /\ call_data["CA1"].is_emergency
    /\ call_data["CA1"].booking_info # NoBooking
    /\ call_data["CA1"].status # Missing
    /\ \E i \in 1..Len(conversations["CA1"]) :
          \E j \in (i + 1)..Len(conversations["CA1"]) :
             /\ conversations["CA1"][i].role = "user"
             /\ detect_emergency(conversations["CA1"][i].content)
             /\ conversations["CA1"][j].role = "user"
             /\ ~detect_emergency(conversations["CA1"][j].content)

\* The part of a session that a call-start must not touch.
SessionOf(conv, data, c) ==
    [turns |-> conv[c], transcript |-> data[c].conversation, from |-> data[c].from,
     started_at |-> data[c].started_at, is_emergency |-> data[c].is_emergency,
     booking_info |-> data[c].booking_info]

\* C5: with requests handled one at a time, a call-start for a call id that
\* has a session leaves that session's turns, caller address, creation
\* timestamp, emergency flag and booking record unchanged; a call-start for a
\* new id creates an empty session for it and leaves every other session
\* unchanged; and an utterance event for one id, which adds to that id's
\* turns, leaves the sessions of the other ids unchanged.
C5_LookupOrCreate ==
    [][/\ \A c \in CallIds, from_number \in FromNumbers :
             Voice(c, from_number) =>
                /\ DOMAIN conversations' = DOMAIN conversations \cup {c}
                /\ DOMAIN call_data' = DOMAIN call_data \cup {c}
                /\ \A d \in DOMAIN conversations :
                      SessionOf(conversations', call_data', d)
                         = SessionOf(conversations, call_data, d)
                /\ c \notin DOMAIN conversations =>
                      /\ conversations'[c] = <<>>
                      /\ call_data'[c] = NewCallData(from_number, now)
       /\ \A c \in DOMAIN conversations :
             conversations'[c] # conversations[c] =>
                \A d \in DOMAIN conversations \ {c} :
                   SessionOf(conversations', call_data', d)
                      = SessionOf(conversations, call_data, d)]_vars

\* C5 witness: two sessions created at different times by different callers,
\* the first flagged and with two exchanges of its own, the second still
\* empty.
C5_Witness ==
    /\ DOMAIN conversations = {"CA1", "CA2"}
    /\ call_data["CA1"].started_at = 0
    /\ call_data["CA2"].started_at = 1
    /\ call_data["CA1"].from # call_data["CA2"].from
    /\ Len(conversations["CA1"]) = 4
    /\ call_data["CA1"].is_emergency
    /\ conversations["CA2"] = <<>>

\* C8: when the dialogue call of an utterance event fails, the event returns
\* a response that speaks (an apology) and hangs up.
C8_OracleFailureSpoken ==
    \A c \in CallIds :
        last[c].chat = "failed" =>
            /\ last[c].http = "200"
            /\ HasHangup(last[c].twiml)
            /\ \E i \in 1..Len(last[c].twiml) : last[c].twiml[i].verb = "Say"

\* The expected reply of the extraction call: parseable, an object, holding
\* the six named fields.
ExpectedStructure(reply) ==
    /\ reply.valid
    /\ reply.value.type = "object"
    /\ \A k \in BookingKeys : reply.value.f[k] # Missing

\* C9: for every extraction reply that is not the expected six-field
\* structure, the booking record stored is the default record (five fields
\* "Not provided", is_emergency "no") and the event completes with the closing
\* hangup response.
C9_ExtractionFallback ==
    \A c \in DOMAIN call_data :
        (last[c].extraction = "done" /\ ~ExpectedStructure(last[c].extract_reply)) =>
            /\ call_data[c].booking_info = DefaultBooking
            /\ last[c].http = "200"
            /\ last[c].twiml = ClosingResponse

\* C10: in every utterance event that stored a booking record and so
\* dispatched the side effects, whatever happens in the notification
\* dispatch, the record publication runs and the response is the closing
\* confirmation followed by hangup.
C10_SideEffectFailureHarmless ==
    \A c \in DOMAIN call_data :
        last[c].extraction = "done" =>
            /\ last[c].dashboard
            /\ last[c].http = "200"
            /\ last[c].twiml = ClosingResponse

\* The statements of process_speech between its first and its last access to
\* the session.
InProcessSpeech(t) ==
    threads[t].pc \in {"ps153", "ps156", "ps161", "ps162", "ps163", "ps166",
                       "ps170", "ps174", "ps185", "ps188"}

Overlapping(t) ==
    \E u \in Threads \ {t} : InProcessSpeech(u) /\ threads[u].sid = threads[t].sid

OwnUserTurn(t) == [role |-> "user", content |-> threads[t].speech]
OwnReply(t) == [role |-> "assistant", content |-> threads[t].ev.ai_response]

\* C6: two utterance events of one call that are handled concurrently leave
\* the session as handling them one after the other would: each handler
\* appends its reply to a message history that ends with its own caller turn,
\* appends its "Bot:" line to a transcript that ends with its own "Customer:"
\* line, and tests a turn count of a history that ends with its own caller
\* turn and reply.
C6_UtterancesSerialized ==
    [][\A t \in Threads :
          LET c == threads[t].sid
              h == conversations[c]
              tr == call_data[c].conversation
          IN
          /\ (PS162(t) /\ Overlapping(t)) =>
                Len(h) >= 1 /\ h[Len(h)] = OwnUserTurn(t)
          /\ (PS163(t) /\ Overlapping(t)) =>
                Len(tr) >= 1 /\ tr[Len(tr)] = CustomerLine(threads[t].speech)
          /\ (PS166(t) /\ Overlapping(t)) =>
                /\ Len(h) >= 2
                /\ h[Len(h) - 1] = OwnUserTurn(t)
                /\ h[Len(h)] = OwnReply(t)]_vars

IsPrefix(s1, s2) == Len(s1) <= Len(s2) /\ \A i \in 1..Len(s1) : s1[i] = s2[i]

\* C7: a session is created once per call id: whatever call-starts and
\* utterance events race, an existing entry is never replaced by a new one,
\* so every turn appended to a session stays in its message history and in
\* its transcript.
C7_CreationAtomic ==
    [][/\ \A c \in DOMAIN conversations :
             c \in DOMAIN conversations' /\ IsPrefix(conversations[c], conversations'[c])
       /\ \A c \in DOMAIN call_data :
             /\ c \in DOMAIN call_data'
             /\ IsPrefix(call_data[c].conversation, call_data'[c].conversation)]_vars

\* C11: every utterance event is handled against a session: once an
\* utterance event has been handled for a call id, also one that no
\* call-start preceded, that id has a session in both stores and the event
\* did not fail on the lookup.
C11_UtteranceCreatesSession ==
    \A c \in CallIds :
        last[c] # NoEvent =>
            /\ c \in DOMAIN conversations
            /\ c \in DOMAIN call_data
            /\ last[c] # KeyErrorEvent

\* C12: the messages sent to the dialogue call of an utterance event are the
\* persona instruction, then the session's turns as they were before the
\* event, then the new caller turn, once.
C12_MessagesExact ==
    [][\A c \in DOMAIN conversations :
          conversations'[c] # conversations[c] =>
             last'[c].messages =
                <<[role |-> "system", content |-> SystemPrompt]>>
                    \o conversations[c]
                    \o <<conversations'[c][Len(conversations[c]) + 1]>>]_vars

\* The booking record provides a contact phone: the key is present and its
\* value is not the "Not provided" sentinel.
PhoneProvided(d) ==
    FieldGet(BookingOf(d), "phone", Missing) \notin {Missing, "Not provided"}

\* C13: every completed wrap-up of a session that has a caller address
\* dispatches a notification; the notification sent goes to the extracted
\* phone when the booking record provides one and to the caller address when
\* the phone is absent or "Not provided".
C13_NotificationRecipient ==
    \A c \in DOMAIN call_data :
        (last[c].twiml = ClosingResponse /\ call_data[c].from # None) =>
            /\ last[c].sms # "skipped"
            /\ last[c].sms = "sent" =>
                  sms_outbox[c][Len(sms_outbox[c])].to =
                     IF PhoneProvided(call_data[c])
                     THEN FieldGet(BookingOf(call_data[c]), "phone", Missing)
                     ELSE call_data[c].from

\* C14: once a status update has set a session's ended_at, no later step
\* changes it.
C14_EndedAtSetOnce ==
    [][\A c \in DOMAIN call_data :
          call_data[c].ended_at # <<>> =>
             /\ c \in DOMAIN call_data'
             /\ call_data'[c].ended_at = call_data[c].ended_at]_vars

\* C15: a status update for a known call id changes nothing but that
\* session's status tag and termination timestamp: the turns of every
\* session, the session's other fields, every other session and the side
\* effects are left as they were; for an unknown id it changes nothing and
\* creates no session; either way it is acknowledged with a 200.
C15_StatusUpdateFrame ==
    [][\A c \in CallIds, call_status \in CallStatuses :
          CallStatus(c, call_status) =>
             /\ CallStatusResponse(call_data, c).http = "200"
             /\ conversations' = conversations
             /\ DOMAIN call_data' = DOMAIN call_data
             /\ \A d \in DOMAIN call_data :
                   IF d = c
                   THEN call_data'[d] =
                           [call_data[d] EXCEPT !.status = call_data'[d].status,
                                                !.ended_at = call_data'[d].ended_at]
                   ELSE call_data'[d] = call_data[d]
             /\ sms_outbox' = sms_outbox
             /\ dashboard_log' = dashboard_log
             /\ last' = last]_vars

\* C15 witness: a flagged session with turns that a status update annotated
\* after the clock had advanced, next to a second session with turns that
\* no status update has touched.
C15_Witness ==
    /\ DOMAIN call_data = {"CA1", "CA2"}
    /\ call_data["CA1"].status = "completed"
    /\ call_data["CA1"].started_at = 0
    /\ call_data["CA1"].ended_at = <<1>>
    /\ call_data["CA1"].is_emergency
    /\ Len(conversations["CA1"]) = 2
    /\ call_data["CA2"].status = Missing
    /\ call_data["CA2"].ended_at = <<>>
    /\ Len(conversations["CA2"]) = 2

\* C16: whatever the outcome of the dialogue call, an utterance event whose
\* utterance contains a trigger phrase leaves the session of its call id
\* with the emergency flag set, and an utterance event whose utterance
\* contains none leaves the flag as it was.
C16_EmergencyWithoutOracle ==
    [][\A c \in CallIds, speech \in Utterances, chat \in ChatOutcomes :
          ProcessSpeech(c, speech, chat) =>
             IF detect_emergency(speech)
             THEN c \in DOMAIN call_data' /\ call_data'[c].is_emergency
             ELSE c \in DOMAIN call_data =>
                     call_data'[c].is_emergency = call_data[c].is_emergency]_vars

\* C17: in every state of the stores, GET /api/calls returns a list (it does
\* not fail) with exactly one entry per session, and an entry's urgency is
\* "emergency" exactly when that session's emergency flag is set, whatever
\* is_emergency says in the session's booking record.
C17_ReadEndpoint ==
    /\ ~get_calls_raises(call_data)
    /\ Cardinality(get_calls(call_data)) = Cardinality(DOMAIN call_data)
    /\ \A c \in DOMAIN call_data :
          \E e \in get_calls(call_data) :
             /\ e.id = c
             /\ e.urgency = "emergency" <=> call_data[c].is_emergency

HasGather(twiml) == \E i \in 1..Len(twiml) : twiml[i].verb = "Gather"

\* C18: an utterance event that returns a response returns one of two
\* shapes, a gather without hangup or the closing confirmation with hangup
\* and without gather; and in a call made of a call-start and successful
\* utterance events only, the first and the second utterance event gather and
\* leave the session without booking record, and the third returns the
\* closing confirmation and leaves a booking record on the session.
C18_ResponseShapes ==
    \A c \in DOMAIN conversations :
        LET e == last[c]
            n == Len(conversations[c])
        IN
        /\ e.http = "200" =>
              \/ /\ e.twiml = GatherResponse
                 /\ HasGather(e.twiml) /\ ~HasHangup(e.twiml)
              \/ /\ e.twiml = ClosingResponse
                 /\ HasHangup(e.twiml) /\ ~HasGather(e.twiml)
        /\ (e.http = "200" /\ Unanswered(conversations[c]) = {}) =>
              /\ n \in {2, 4} => /\ e.twiml = GatherResponse
                                 /\ call_data[c].booking_info = NoBooking
              /\ n = 6 => /\ e.twiml = ClosingResponse
                          /\ call_data[c].booking_info # NoBooking

\* C18 witness: a call-start and three successful utterance events, the
\* third answered by the closing confirmation, the complete booking record
\* on the session.
C18_Witness ==
    /\ "CA1" \in DOMAIN conversations
    /\ Len(conversations["CA1"]) = 6
    /\ Unanswered(conversations["CA1"]) = {}
    /\ last["CA1"].http = "200"
    /\ last["CA1"].twiml = ClosingResponse
    /\ call_data["CA1"].booking_info = FullReply.value

Final(s) == s[Len(s)]

\* C19: with requests handled one at a time, a terminating utterance event
\* goes through its steps in this order, each step requiring the ones before
\* it: the system turn is appended; the extraction call receives the whole
\* transcript, that turn included; the booking record returned is stored; the
\* notification step runs; the record is published, carrying the stored
\* booking and the whole transcript; the hangup is returned.  No notification
\* and no published record exists for a session without stored booking
\* record.
C19_WrapUpOrder ==
    \A c \in DOMAIN call_data :
        LET e == last[c]
            d == call_data[c]
        IN
        /\ e.extraction # "none" =>
              /\ e.chat = "ok"
              /\ Final(conversations[c]) = [role |-> "assistant", content |-> e.ai_response]
              /\ Final(d.conversation) = BotLine(e.ai_response)
              /\ e.extract_text = Join(d.conversation)
        /\ e.extraction = "done" =>
              d.booking_info = extract_booking_info(e.extract_reply)
        /\ e.sms # "none" => e.extraction = "done"
        /\ e.sms = "sent" =>
              Final(sms_outbox[c]).to = FieldGet(d.booking_info, "phone", d.from)
        /\ e.dashboard =>
              /\ e.sms # "none"
              /\ Final(dashboard_log[c]).clientName = FieldGet(d.booking_info, "name", "Unknown")
              /\ Final(dashboard_log[c]).transcript = Join(d.conversation)
        /\ HasHangup(e.twiml) => e.dashboard
        /\ (sms_outbox[c] # <<>> \/ dashboard_log[c] # <<>>) => d.booking_info # NoBooking

\* C19 witness: a wrap-up that went through all its steps: the reply is the
\* session's last turn, the complete booking record is stored, the
\* notification was sent, the record published and the hangup returned.
C19_Witness ==
    /\ "CA1" \in DOMAIN call_data
    /\ last["CA1"].extraction = "done"
    /\ last["CA1"].sms = "sent"
    /\ last["CA1"].dashboard
    /\ HasHangup(last["CA1"].twiml)
    /\ call_data["CA1"].booking_info = FullReply.value
    /\ Len(sms_outbox["CA1"]) = 1
    /\ Len(dashboard_log["CA1"]) = 1
    /\ Final(dashboard_log["CA1"]).clientName = "Ann"

\* The transcript line that stands for a role-tagged turn.
LineOf(turn) ==
    IF turn.role = "user" THEN CustomerLine(turn.content) ELSE BotLine(turn.content)

\* C20: after every utterance event, completed or aborted by a failed
\* dialogue call, a session's message history and its transcript have the
\* same length and hold the same speaker and text at every position, the
\* turns alternate caller, system, caller, system from a caller turn on, and
\* the turn count an event tested against the threshold is even.
C20_HistoriesParallel ==
    \A c \in DOMAIN conversations :
        LET h == conversations[c]
            tr == call_data[c].conversation
        IN
        /\ Len(h) = Len(tr)
        /\ \A i \in 1..Len(h) :
              /\ tr[i] = LineOf(h[i])
              /\ h[i].role = IF i % 2 = 1 THEN "user" ELSE "assistant"
        /\ last[c].conversation_length % 2 = 0
====
